---- MODULE Spec2Model ----
(***************************************************************************)
(* Model of notebook/static/services/sessions/remote.js: the Remote        *)
(* session client.  It keeps one WebSocket handle (this.ws), reconnects    *)
(* with exponential backoff after a close, and processes inbound frames    *)
(* through a promise chain (this._msg_queue).                              *)
(*                                                                         *)
(* Every browser task (a call by the user of the object, a WebSocket       *)
(* event, a timer callback, a promise reaction) is one action.  A task's   *)
(* code is written as operators over a record s of the mutable state, so   *)
(* that the calls a handler makes compose in the order of the source.     *)
(***************************************************************************)
EXTENDS Integers, Sequences, FiniteSets, TLC

\* ---- bounds ----
MaxWs == 3          \* transports created in Spec
MaxChain == 9       \* transports created in SpecRetry
MaxFrames == 3      \* inbound frames in SpecMsg
MaxSendWs == 2      \* transports created in SpecSend

\* ---- program constants ----
reconnect_limit == 7
GraceDelay == 1

VARIABLES
    ws,                     \* this.ws: 0 is null, else the index of a transport
    readyState,             \* readyState of every WebSocket created, in creation order
    onclose,                \* the onclose handler of every WebSocket
    already_called_onclose, \* the one-shot flag of every start_channel call
    timers,                 \* pending setTimeout callbacks, in the order armed
    _reconnect_attempt,     \* this._reconnect_attempt
    frames,                 \* inbound frames handed to _handle_ws_message
    _msg_queue,             \* this._msg_queue: the frame whose promise is the tail (0: the initial promise)
    fired,                  \* what the last task did: events triggered, timers armed, errors reported
    runs,                   \* per transport, how many times _ws_closed ran from its events
    sent,                   \* what the last task handed to ws.send, and on which transport
    ret,                    \* the call the last task was, if it was a call of the caller, and its result
    scen                    \* progress along the open-then-early-close sequence

vars == <<ws, readyState, onclose, already_called_onclose, timers,
          _reconnect_attempt, frames, _msg_queue, fired, runs, sent, ret, scen>>

connVars == <<ws, readyState, onclose, already_called_onclose, timers,
              _reconnect_attempt, runs>>
msgVars == <<frames, _msg_queue>>

\* ---- helpers ----
RECURSIVE Pow2(_)
Pow2(n) == IF n = 0 THEN 1 ELSE 2 * Pow2(n - 1)

RemoveAt(q, p) == [i \in 1..(Len(q) - 1) |-> IF i < p THEN q[i] ELSE q[i + 1]]

Note(type, attempt, delay) == [type |-> type, attempt |-> attempt, delay |-> delay]

\* the result of a call: result is "ok" or "error" (the call threw), value what it returned
Result(op, result, value, input) == [op |-> op, result |-> result, value |-> value, input |-> input]
NoCall == Result("none", "ok", "", "")

\* the mutable state a task works on
St == [ws |-> ws, rs |-> readyState, oc |-> onclose, g |-> already_called_onclose,
       tm |-> timers, att |-> _reconnect_attempt, ev |-> <<>>, runs |-> runs,
       sent |-> <<>>, ret |-> NoCall]

Commit(s) ==
    /\ ws' = s.ws
    /\ readyState' = s.rs
    /\ onclose' = s.oc
    /\ already_called_onclose' = s.g
    /\ timers' = s.tm
    /\ _reconnect_attempt' = s.att
    /\ fired' = s.ev
    /\ runs' = s.runs
    /\ sent' = s.sent
    /\ ret' = s.ret

\* a call of the caller returns
Returned(s, op) == [s EXCEPT !.ret = Result(op, "ok", "", "")]

\* events.trigger(name, data)
trigger(s, type, attempt) == [s EXCEPT !.ev = Append(@, Note(type, attempt, 0))]

\* ---- Remote.prototype ----
is_connected(s) == s.ws # 0 /\ s.rs[s.ws] = "OPEN"

is_fully_disconnected(s) == s.ws = 0

\* the closure close of stop_channel
\* the readyState test left out
close_unchecked(s) == IF s.ws # 0 THEN [s EXCEPT !.ws = 0] ELSE s
close(s) == IF s.ws # 0 /\ s.rs[s.ws] = "CLOSED" THEN [s EXCEPT !.ws = 0] ELSE s

\* pending reconnect timers cancelled as well
stop_channel_cancel(s) ==
    LET s1 == [s EXCEPT !.tm = SelectSeq(@, LAMBDA x : x.kind # "reconnect")]
    IN IF s1.ws # 0
       THEN IF s1.rs[s1.ws] = "OPEN"
            THEN [s1 EXCEPT !.oc[s1.ws] = [kind |-> "close", call |-> 0],
                            !.rs[s1.ws] = "CLOSING"]
            ELSE close(s1)
       ELSE s1

\* this.ws.close() left out
stop_channel_noclose(s) ==
    IF s.ws # 0
    THEN IF s.rs[s.ws] = "OPEN"
         THEN [s EXCEPT !.oc[s.ws] = [kind |-> "close", call |-> 0]]
         ELSE close(s)
    ELSE s

stop_channel(s) ==
    IF s.ws # 0
    THEN IF s.rs[s.ws] = "OPEN"
         THEN [s EXCEPT !.oc[s.ws] = [kind |-> "close", call |-> 0],
                        !.rs[s.ws] = "CLOSING"]
         ELSE close(s)
    ELSE s

start_channel(s) ==
    LET s1 == stop_channel(s)
        n == Len(s1.rs) + 1
    IN [s1 EXCEPT !.ws = n,
                  !.rs = Append(@, "CONNECTING"),
                  !.g = Append(@, FALSE),
                  !.oc = Append(@, [kind |-> "early", call |-> n]),
                  !.runs = Append(@, 0),
                  !.tm = Append(@, [kind |-> "grace", call |-> n, delay |-> GraceDelay])]

\* the ceiling test inverted
_schedule_reconnect_inverted(s) ==
    IF s.att > reconnect_limit
    THEN LET timeout == Pow2(s.att)
         IN [s EXCEPT !.tm = Append(@, [kind |-> "reconnect", call |-> 0, delay |-> timeout]),
                      !.ev = Append(@, Note("setTimeout_reconnect", s.att, timeout))]
    ELSE trigger(s, "remote_connection_dead", s.att)

\* the ceiling test off by one
_schedule_reconnect_offbyone(s) ==
    IF s.att <= reconnect_limit
    THEN LET timeout == Pow2(s.att)
         IN [s EXCEPT !.tm = Append(@, [kind |-> "reconnect", call |-> 0, delay |-> timeout]),
                      !.ev = Append(@, Note("setTimeout_reconnect", s.att, timeout))]
    ELSE trigger(s, "remote_connection_dead", s.att)

\* the delay linear in the counter
_schedule_reconnect_linear(s) ==
    IF s.att < reconnect_limit
    THEN LET timeout == 2 * s.att
         IN [s EXCEPT !.tm = Append(@, [kind |-> "reconnect", call |-> 0, delay |-> timeout]),
                      !.ev = Append(@, Note("setTimeout_reconnect", s.att, timeout))]
    ELSE trigger(s, "remote_connection_dead", s.att)

_schedule_reconnect(s) ==
    IF s.att < reconnect_limit
    THEN LET timeout == Pow2(s.att)
         IN [s EXCEPT !.tm = Append(@, [kind |-> "reconnect", call |-> 0, delay |-> timeout]),
                      !.ev = Append(@, Note("setTimeout_reconnect", s.att, timeout))]
    ELSE trigger(s, "remote_connection_dead", s.att)

\* j: the transport whose event is being handled
\* the error flag not tested
_ws_closed_anyfailed(s, error, j) ==
    LET s1 == stop_channel(s)
        s2 == trigger(s1, "remote_disconnected", 0)
        s3 == trigger(s2, "remote_connection_failed", s2.att)
        s4 == [s3 EXCEPT !.runs[j] = @ + 1]
    IN _schedule_reconnect(s4)

_ws_closed(s, error, j) ==
    LET s1 == stop_channel(s)
        s2 == trigger(s1, "remote_disconnected", 0)
        s3 == IF error THEN trigger(s2, "remote_connection_failed", s2.att) ELSE s2
        s4 == [s3 EXCEPT !.runs[j] = @ + 1]
    IN _schedule_reconnect(s4)

\* the handler bind_events registers for remote_connected.Remote
on_remote_connected_noreset(s) == s
on_remote_connected(s) == [s EXCEPT !.att = 0]

_remote_connected(s) == on_remote_connected(trigger(s, "remote_connected", 0))

\* is_connected() not tested
_ws_opened_unguarded(s) == _remote_connected(s)

_ws_opened(s) == IF is_connected(s) THEN _remote_connected(s) ELSE s

\* the closures of the start_channel call i, run for an event of transport j
ws_closed_early(s, i, wasClean, j) ==
    IF s.g[i] THEN s
    ELSE LET s1 == [s EXCEPT !.g[i] = TRUE]
         IN IF ~wasClean THEN _ws_closed(s1, FALSE, j) ELSE s1

\* wasClean not tested
ws_closed_late_anyclose(s, i, wasClean, j) ==
    IF s.g[i] THEN s
    ELSE _ws_closed([s EXCEPT !.g[i] = TRUE], FALSE, j)

ws_closed_late(s, i, wasClean, j) ==
    IF s.g[i] THEN s
    ELSE LET s1 == [s EXCEPT !.g[i] = TRUE]
         IN IF ~wasClean THEN _ws_closed(s1, FALSE, j) ELSE s1

\* the flag tested but not set
ws_error_unlatched(s, i, j) ==
    IF s.g[i] THEN s
    ELSE _ws_closed(s, TRUE, j)

ws_error(s, i, j) ==
    IF s.g[i] THEN s
    ELSE _ws_closed([s EXCEPT !.g[i] = TRUE], TRUE, j)

\* the callback of the timer start_channel call i arms
grace_timeout(s, i) ==
    IF s.ws # 0 THEN [s EXCEPT !.oc[s.ws] = [kind |-> "late", call |-> i]] ELSE s

reconnect(s) == start_channel([s EXCEPT !.att = @ + 1])

\* ---- outbound ----
Inputs == {"x", "y"}        \* values of send_input_reply
Uuids == {"u1", "u2"}       \* values utils.uuid() returns

\* serialize.serialize(msg): the wire form of a message
serialize(msg) == [wire |-> msg]

\* uuid: what utils.uuid() returns in this call
_get_msg(msg_type, content, uuid) ==
    [header |-> [msg_id |-> uuid, username |-> "username", session |-> "session_id",
                 msg_type |-> msg_type, version |-> "5.0"],
     content |-> content,
     channel |-> ""]

\* the is_connected test made after the notification
send_input_reply_latecheck(s, input, uuid) ==
    LET content == [value |-> input]
        s1 == trigger(s, "input_reply", 0)
        msg == [_get_msg("input_reply", content, uuid) EXCEPT !.channel = "stdin"]
    IN IF ~is_connected(s1)
       THEN [s1 EXCEPT !.ret = Result("send_input_reply", "error", "", input)]
       ELSE [s1 EXCEPT !.sent = Append(@, [ws |-> s1.ws, data |-> serialize(msg)]),
                       !.ret = Result("send_input_reply", "ok", msg.header.msg_id, input)]

\* the channel tag of another channel
send_input_reply_shell(s, input, uuid) ==
    IF ~is_connected(s)
    THEN [s EXCEPT !.ret = Result("send_input_reply", "error", "", input)]
    ELSE LET content == [value |-> input]
             s1 == trigger(s, "input_reply", 0)
             msg == [_get_msg("input_reply", content, uuid) EXCEPT !.channel = "shell"]
         IN [s1 EXCEPT !.sent = Append(@, [ws |-> s1.ws, data |-> serialize(msg)]),
                       !.ret = Result("send_input_reply", "ok", msg.header.msg_id, input)]

send_input_reply(s, input, uuid) ==
    IF ~is_connected(s)
    THEN [s EXCEPT !.ret = Result("send_input_reply", "error", "", input)]
    ELSE LET content == [value |-> input]
             s1 == trigger(s, "input_reply", 0)
             msg == [_get_msg("input_reply", content, uuid) EXCEPT !.channel = "stdin"]
         IN [s1 EXCEPT !.sent = Append(@, [ws |-> s1.ws, data |-> serialize(msg)]),
                       !.ret = Result("send_input_reply", "ok", msg.header.msg_id, input)]

\* ---- the WebSocket ----
\* dispatch of the close event of transport j to the handler in j.onclose
dispatch_close(s, j, wasClean) ==
    LET h == s.oc[j]
    IN CASE h.kind = "early" -> ws_closed_early(s, h.call, wasClean, j)
         [] h.kind = "late" -> ws_closed_late(s, h.call, wasClean, j)
         [] OTHER -> close(s)

\* a timer may fire once no timer armed before it with the same or a shorter delay is pending
CanFire(p) == \A q \in 1..(p - 1) : timers[q].delay > timers[p].delay

\* ---- the open-then-early-close sequence ----
ScenNext(op) ==
    CASE scen = "fresh" /\ op = "start" -> "started"
      [] scen = "started" /\ op = "open" -> "opened"
      [] scen = "opened" /\ op = "close" -> "closed"
      [] OTHER -> "off"

\* ---- actions ----
Init ==
    /\ ws = 0
    /\ readyState = <<>>
    /\ onclose = <<>>
    /\ already_called_onclose = <<>>
    /\ timers = <<>>
    /\ _reconnect_attempt = 0
    /\ frames = <<>>
    /\ _msg_queue = 0
    /\ fired = <<>>
    /\ runs = <<>>
    /\ sent = <<>>
    /\ ret = NoCall
    /\ scen = "fresh"

\* the caller calls start_channel()
StartChannel(cap) ==
    /\ Len(readyState) < cap
    /\ Commit(Returned(start_channel(St), "start_channel"))
    /\ scen' = ScenNext("start")
    /\ UNCHANGED msgVars

\* the caller calls stop_channel()
StopChannel ==
    /\ Commit(Returned(stop_channel(St), "stop_channel"))
    /\ scen' = "off"
    /\ UNCHANGED msgVars

\* the caller calls send_input_reply(input), or triggers send_input_reply.Remote
SendInputReply(input, uuid) ==
    /\ Commit(send_input_reply(St, input, uuid))
    /\ scen' = "off"
    /\ UNCHANGED msgVars

\* the open event of transport j
WsOpen(j) ==
    /\ readyState[j] = "CONNECTING"
    /\ Commit(_ws_opened([St EXCEPT !.rs[j] = "OPEN"]))
    /\ scen' = IF j = 1 THEN ScenNext("open") ELSE "off"
    /\ UNCHANGED msgVars

\* transport j closes: readyState becomes CLOSED, then the error event (if the
\* connection failed) and the close event are fired, in one task
WsClose(j, error, wasClean) ==
    /\ readyState[j] # "CLOSED"
    /\ error => ~wasClean
    /\ readyState[j] = "CONNECTING" => ~wasClean
    /\ LET s0 == [St EXCEPT !.rs[j] = "CLOSED"]
           s1 == IF error THEN ws_error(s0, j, j) ELSE s0
       IN Commit(dispatch_close(s1, j, wasClean))
    /\ scen' = IF j = 1 /\ ~wasClean THEN ScenNext("close") ELSE "off"
    /\ UNCHANGED msgVars

\* the 1 s timer of a start_channel call fires
GraceTimer(p) ==
    /\ timers[p].kind = "grace"
    /\ CanFire(p)
    /\ Commit(grace_timeout([St EXCEPT !.tm = RemoveAt(@, p)], timers[p].call))
    /\ scen' = "off"
    /\ UNCHANGED msgVars

\* a timer of _schedule_reconnect fires
ReconnectTimer(p, cap) ==
    /\ timers[p].kind = "reconnect"
    /\ CanFire(p)
    /\ Len(readyState) < cap
    /\ Commit(reconnect([St EXCEPT !.tm = RemoveAt(@, p)]))
    /\ scen' = "off"
    /\ UNCHANGED msgVars

\* ---- inbound frames: the promise chain in this._msg_queue ----
DataKinds == {"exec", "plain", "bad", "null"}
    \* exec: decodes to a message with an exec field      plain: to one without
    \* bad: serialize.deserialize fails    null: decodes to null, so that msg.exec throws

\* the state of the promise frame k's chain ends in
Promise(fs, k) == IF k = 0 THEN "fulfilled" ELSE fs[k].p

\* what the handler utils.reject(message, true) leaves its promise in, once it has reported the error
utils_reject == "fulfilled"

\* the last link of a frame's chain: .catch(utils.reject(...))
caught_nocatch(failed) == IF failed THEN "rejected" ELSE "fulfilled"
caught(failed) == IF failed THEN utils_reject ELSE "fulfilled"

\* this._msg_queue = this._msg_queue.then(...).then(...).catch(...)
_handle_ws_message_unchained(fs, q, data) ==
    Append(fs, [data |-> data, prev |-> 0, stage |-> "queued", p |-> "pending"])
_handle_ws_message(fs, q, data) ==
    Append(fs, [data |-> data, prev |-> q, stage |-> "queued", p |-> "pending"])

\* a message event of transport j
HandleWsMessage(j, data) ==
    /\ Len(frames) < MaxFrames
    /\ readyState[j] = "OPEN"
    /\ frames' = _handle_ws_message(frames, _msg_queue, data)
    /\ _msg_queue' = Len(frames) + 1
    /\ fired' = <<>>
    /\ sent' = <<>> /\ ret' = NoCall
    /\ scen' = "off"
    /\ UNCHANGED connVars

\* the first reaction of frame k runs once the promise before it is settled:
\* it calls serialize.deserialize, or is passed over when that promise is rejected
DecodeStart(k) ==
    /\ frames[k].stage = "queued"
    /\ Promise(frames, frames[k].prev) # "pending"
    /\ IF Promise(frames, frames[k].prev) = "fulfilled"
       THEN /\ frames' = [frames EXCEPT ![k].stage = "decoding"]
            /\ fired' = <<>>
       ELSE /\ frames' = [frames EXCEPT ![k].stage = "skipped", ![k].p = caught(TRUE)]
            /\ fired' = <<Note("console.error", 0, 0)>>
    /\ sent' = <<>> /\ ret' = NoCall
    /\ scen' = "off"
    /\ UNCHANGED <<connVars, _msg_queue>>

\* serialize.deserialize(e.data) completes
DecodeDone(k) ==
    /\ frames[k].stage = "decoding"
    /\ IF frames[k].data = "bad"
       THEN /\ frames' = [frames EXCEPT ![k].stage = "failed", ![k].p = caught(TRUE)]
            /\ fired' = <<Note("console.error", 0, 0)>>
       ELSE /\ frames' = [frames EXCEPT ![k].stage = "decoded"]
            /\ fired' = <<>>
    /\ sent' = <<>> /\ ret' = NoCall
    /\ scen' = "off"
    /\ UNCHANGED <<connVars, _msg_queue>>

\* the second reaction of frame k: the dispatch step
\* a failed dispatch made to close the channel
Dispatch_closing(k) ==
    /\ frames[k].stage = "decoded"
    /\ IF frames[k].data = "null"
       THEN /\ frames' = [frames EXCEPT ![k].stage = "failed", ![k].p = caught(TRUE)]
            /\ Commit([stop_channel(St) EXCEPT !.ev = <<Note("console.error", 0, 0)>>])
       ELSE /\ frames' = [frames EXCEPT ![k].stage = "done", ![k].p = caught(FALSE)]
            /\ fired' = IF frames[k].data = "exec" THEN <<Note("exec", 0, 0)>> ELSE <<>>
            /\ sent' = <<>> /\ ret' = NoCall
            /\ UNCHANGED connVars
    /\ scen' = "off"
    /\ UNCHANGED _msg_queue

Dispatch(k) ==
    /\ frames[k].stage = "decoded"
    /\ IF frames[k].data = "null"
       THEN /\ frames' = [frames EXCEPT ![k].stage = "failed", ![k].p = caught(TRUE)]
            /\ fired' = <<Note("console.error", 0, 0)>>
       ELSE /\ frames' = [frames EXCEPT ![k].stage = "done", ![k].p = caught(FALSE)]
            /\ fired' = IF frames[k].data = "exec" THEN <<Note("exec", 0, 0)>> ELSE <<>>
    /\ sent' = <<>> /\ ret' = NoCall
    /\ scen' = "off"
    /\ UNCHANGED <<connVars, _msg_queue>>

\* ---- specifications ----
\* the connection: any calls, events and timers
Next ==
    \/ StartChannel(MaxWs)
    \/ StopChannel
    \/ \E j \in DOMAIN readyState : WsOpen(j)
    \/ \E j \in DOMAIN readyState : \E error, wasClean \in BOOLEAN : WsClose(j, error, wasClean)
    \/ \E p \in DOMAIN timers : GraceTimer(p)
    \/ \E p \in DOMAIN timers : ReconnectTimer(p, MaxWs)

Spec == Init /\ [][Next]_vars

\* the caller starts the channel once and leaves reconnection to the timers
NextRetry ==
    \/ StartChannel(1)
    \/ StopChannel
    \/ \E j \in DOMAIN readyState : WsOpen(j)
    \/ \E j \in DOMAIN readyState : \E error, wasClean \in BOOLEAN : WsClose(j, error, wasClean)
    \/ \E p \in DOMAIN timers : GraceTimer(p)
    \/ \E p \in DOMAIN timers : ReconnectTimer(p, MaxChain)

SpecRetry == Init /\ [][NextRetry]_vars

\* the connection and the outbound input replies
NextSend ==
    \/ StartChannel(MaxSendWs)
    \/ StopChannel
    \/ \E input \in Inputs : \E uuid \in Uuids : SendInputReply(input, uuid)
    \/ \E j \in DOMAIN readyState : WsOpen(j)
    \/ \E j \in DOMAIN readyState : \E error, wasClean \in BOOLEAN : WsClose(j, error, wasClean)
    \/ \E p \in DOMAIN timers : GraceTimer(p)
    \/ \E p \in DOMAIN timers : ReconnectTimer(p, MaxSendWs)

SpecSend == Init /\ [][NextSend]_vars

\* inbound frames on one transport
NextMsg ==
    \/ StartChannel(1)
    \/ \E j \in DOMAIN readyState : WsOpen(j)
    \/ \E j \in DOMAIN readyState : \E error, wasClean \in BOOLEAN : WsClose(j, error, wasClean)
    \/ \E p \in DOMAIN timers : GraceTimer(p)
    \/ \E j \in DOMAIN readyState : \E data \in DataKinds : HandleWsMessage(j, data)
    \/ \E k \in DOMAIN frames : DecodeStart(k)
    \/ \E k \in DOMAIN frames : DecodeDone(k)
    \/ \E k \in DOMAIN frames : Dispatch(k)

SpecMsg == Init /\ [][NextMsg]_vars

\* ---- claims ----
Settled == {"done", "failed", "skipped"}
Entered == {"decoding", "decoded", "done", "failed"}

\* C1: a frame enters decode only after every frame that arrived before it has been
\* dispatched or has failed, so the dispatch steps run in arrival order and no two
\* frames are in decode/dispatch at the same time.
C1_InOrder ==
    \A k \in DOMAIN frames :
        frames[k].stage \in Entered =>
            \A m \in 1..(k - 1) : frames[m].stage \in Settled

\* a later frame waits while an earlier one is being decoded, and one dispatched after another
C1_Witness ==
    \E k, m \in DOMAIN frames :
        /\ k < m /\ m < Len(frames)
        /\ frames[k].stage = "done"
        /\ frames[m].stage = "decoding"
        /\ frames[m + 1].stage = "queued"

C3_OneClosePath == \A j \in DOMAIN runs : runs[j] <= 1

Live(j) == readyState[j] \in {"CONNECTING", "OPEN"}

\* C9: at most one transport is CONNECTING or OPEN.
C9_OneLiveTransport == Cardinality({j \in DOMAIN readyState : Live(j)}) <= 1

\* C10: the close event of the transport that stop_channel closed while it was OPEN
\* (it is CLOSING, and still the one in ws) leaves ws null; stop_channel called with a
\* CLOSED transport or none leaves ws null at once.
C10_StopClearsHandle ==
    [][/\ \A j \in DOMAIN readyState :
              (ws = j /\ readyState[j] = "CLOSING" /\ readyState'[j] = "CLOSED") => ws' = 0
       /\ (StopChannel /\ (ws = 0 \/ readyState[ws] = "CLOSED")) => ws' = 0
      ]_vars

Count(log, type) == Cardinality({i \in DOMAIN log : log[i].type = type})
NRec(tm) == Cardinality({p \in DOMAIN tm : tm[p].kind = "reconnect"})

\* C4: start_channel on a fresh client, open, then an unclean close (with or without
\* the error event) before the grace timer: one remote_disconnected, then one
\* reconnect timer, of 1 second.
C4_EarlyCloseOnce ==
    scen = "closed" =>
        /\ Count(fired, "remote_disconnected") = 1
        /\ Count(fired, "setTimeout_reconnect") = 1
        /\ Count(fired, "remote_connection_dead") = 0
        /\ \E a, b \in DOMAIN fired :
               /\ a < b
               /\ fired[a].type = "remote_disconnected"
               /\ fired[b].type = "setTimeout_reconnect" /\ fired[b].delay = 1
        /\ NRec(timers) = 1
        /\ \A p \in DOMAIN timers : timers[p].kind = "reconnect" => timers[p].delay = 1
        /\ runs = <<1>>

\* the sequence with the error event before the close event
C4_Witness == scen = "closed" /\ Count(fired, "remote_connection_failed") = 1

DeadState ==
    /\ _reconnect_attempt = 7
    /\ NRec(timers) = 0
    /\ \A j \in DOMAIN readyState : ~Live(j)

BackoffDelays == <<1, 2, 4, 8, 16, 32, 64>>

\* C7: with the counter at a in 0..6, _schedule_reconnect arms a timer of 2^a seconds
\* and fires no remote_connection_dead; at 7 it arms none and fires remote_connection_dead.
C7_Backoff ==
    /\ \A i \in DOMAIN fired :
           /\ fired[i].type = "setTimeout_reconnect" =>
                  /\ fired[i].attempt = _reconnect_attempt
                  /\ fired[i].attempt \in 0..6
                  /\ fired[i].delay = BackoffDelays[fired[i].attempt + 1]
                  /\ \E p \in DOMAIN timers :
                         timers[p].kind = "reconnect" /\ timers[p].delay = fired[i].delay
           /\ fired[i].type = "remote_connection_dead" => _reconnect_attempt = 7
    /\ Count(fired, "remote_disconnected") =
           Count(fired, "setTimeout_reconnect") + Count(fired, "remote_connection_dead")
    /\ _reconnect_attempt \in 0..6 => Count(fired, "remote_connection_dead") = 0
    /\ _reconnect_attempt = 7 => Count(fired, "setTimeout_reconnect") = 0
    /\ \A p \in DOMAIN timers :
           timers[p].kind = "reconnect" => \E a \in 1..7 : timers[p].delay = BackoffDelays[a]

\* the longest delay has been armed
C7_Witness ==
    \E i \in DOMAIN fired :
        fired[i].type = "setTimeout_reconnect" /\ fired[i].attempt = 6 /\ fired[i].delay = 64

\* C8: when remote_connected has fired, the current transport is OPEN and the
\* reconnect counter is 0.
C8_ConnectResets ==
    Count(fired, "remote_connected") >= 1 =>
        /\ _reconnect_attempt = 0
        /\ ws # 0 /\ readyState[ws] = "OPEN"

\* transport 2, opened by the reconnect timer with the counter at 1, has connected
C8_Witness ==
    /\ Count(fired, "remote_connected") = 1
    /\ Len(readyState) = 2 /\ readyState[1] = "CLOSED" /\ readyState[2] = "OPEN"
    /\ runs = <<1, 0>> /\ NRec(timers) = 0

\* a state in which a stop_channel call is made with no transport, or directly after
\* a stop_channel call
RepeatedStop == ws = 0 \/ ret.op = "stop_channel"

\* C11 as stated: such a call changes nothing and leaves is_fully_disconnected() true.
C11_Original ==
    RepeatedStop =>
        /\ stop_channel(St) = St
        /\ is_fully_disconnected(stop_channel(St))

\* C11: a stop_channel call made with no transport, or directly after a stop_channel
\* call, changes nothing; is_fully_disconnected() is true after it when there was no
\* transport or the transport was CLOSED at the first call, and false while the
\* transport is still CONNECTING or CLOSING.
C11_StopIdempotent ==
    RepeatedStop =>
        /\ stop_channel(St) = St
        /\ ws # 0 => readyState[ws] \in {"CONNECTING", "CLOSING"}
        /\ is_fully_disconnected(stop_channel(St)) = (ws = 0)

\* stop_channel has closed an OPEN transport, whose close event is still to come
C11_Witness ==
    /\ ret.op = "stop_channel"
    /\ ws # 0 /\ readyState[ws] = "CLOSING" /\ onclose[ws].kind = "close"

\* C12: directly after a stop_channel call, is_connected() is false.
C12_StopDisconnects ==
    ret.op = "stop_channel" => ~is_connected(St)

\* stop_channel was called on the first transport while it was OPEN, with the counter reset
C12_Witness ==
    /\ ret.op = "stop_channel"
    /\ readyState = <<"CLOSING">> /\ ws = 1
    /\ already_called_onclose = <<FALSE>>

\* C13: send_input_reply while is_connected() is false throws and does nothing else.
C13_SendRefused ==
    [][\A input \in Inputs, uuid \in Uuids :
          (SendInputReply(input, uuid) /\ ~is_connected(St)) =>
              /\ ret'.result = "error"
              /\ sent' = <<>>
              /\ fired' = <<>>
              /\ UNCHANGED <<connVars, msgVars>>
      ]_vars

\* refused while the second transport is CONNECTING and the counter is 1
C13_Witness ==
    /\ ret.op = "send_input_reply" /\ ret.result = "error"
    /\ ws = 2 /\ readyState[2] = "CONNECTING" /\ _reconnect_attempt = 1

\* C14: send_input_reply(value) while is_connected() is true sends one input_reply
\* message with channel "stdin" and content {value} on the current transport, fires
\* one input_reply event and returns the msg_id of the message sent.
C14_SendReply ==
    [][\A input \in Inputs, uuid \in Uuids :
          (SendInputReply(input, uuid) /\ is_connected(St)) =>
              /\ ret'.result = "ok"
              /\ Len(sent') = 1
              /\ sent'[1].ws = ws
              /\ sent'[1].data.wire.header.msg_type = "input_reply"
              /\ sent'[1].data.wire.channel = "stdin"
              /\ sent'[1].data.wire.content = [value |-> input]
              /\ ret'.value = sent'[1].data.wire.header.msg_id
              /\ ret'.value = uuid
              /\ fired' = <<Note("input_reply", 0, 0)>>
              /\ UNCHANGED <<connVars, msgVars>>
      ]_vars

\* a reply sent on the open transport
C14_Witness ==
    /\ ret.op = "send_input_reply" /\ ret.result = "ok" /\ ret.input = "y" /\ ret.value = "u2"
    /\ Len(sent) = 1 /\ sent[1].ws = ws

\* the error event of transport j finds the flag of its handler clear
EntersByError(j, error) == error /\ ~already_called_onclose[j]

\* the close event of transport j finds the flag of its handler clear, once the error
\* handler, if any, has run
EntersByClose(j, error, wasClean) ==
    /\ onclose[j].kind \in {"early", "late"}
    /\ ~already_called_onclose[onclose[j].call]
    /\ ~(EntersByError(j, error) /\ onclose[j].call = j)
    /\ ~wasClean

\* after the step: the channel is stopped, remote_disconnected came first and the
\* reconnect timer or remote_connection_dead last
Handled ==
    /\ ws' = 0
    /\ Len(fired') >= 2
    /\ fired'[1].type = "remote_disconnected"
    /\ fired'[Len(fired')].type \in {"setTimeout_reconnect", "remote_connection_dead"}

\* C15 as stated: the first close or error event of the current transport is handled
\* whatever its wasClean flag.
C15_Original ==
    [][\A j \in DOMAIN readyState : \A error, wasClean \in BOOLEAN :
          (/\ WsClose(j, error, wasClean)
           /\ j = ws
           /\ ~already_called_onclose[j]
           /\ onclose[j].kind \in {"early", "late"}
           /\ ~already_called_onclose[onclose[j].call]) => Handled
      ]_vars

\* C15: an error event, or a close event with wasClean false, of the current transport
\* that finds the one-shot flag of its handler clear stops the channel, fires
\* remote_disconnected and then schedules a reconnect or declares the connection dead;
\* any other close fires and schedules nothing; the early and the late handler do the same.
C15_UncleanCloseHandled ==
    /\ [][(ws # 0 /\ readyState'[ws] = "CLOSED") =>
              \A error, wasClean \in BOOLEAN :
                  WsClose(ws, error, wasClean) =>
                      IF EntersByError(ws, error) \/ EntersByClose(ws, error, wasClean)
                      THEN Handled
                      ELSE fired' = <<>> /\ timers' = timers
         ]_vars
    /\ [](\A j \in DOMAIN readyState : \A wasClean \in BOOLEAN :
              onclose[j].call # 0 =>
                  ws_closed_early(St, onclose[j].call, wasClean, j)
                      = ws_closed_late(St, onclose[j].call, wasClean, j))

\* a close handled by the late handler, after the grace timer of the transport
C15_Witness ==
    \E j \in DOMAIN readyState :
        /\ readyState[j] = "CLOSED" /\ onclose[j] = [kind |-> "late", call |-> j]
        /\ runs[j] = 1 /\ ws = 0
        /\ Len(fired) = 2 /\ fired[1].type = "remote_disconnected"
        /\ fired[2].type = "setTimeout_reconnect"

\* C16: remote_connection_failed fires once when the error event of a transport enters
\* the close handling and not otherwise; it carries the reconnect counter, and comes
\* right after remote_disconnected and before the reconnect is scheduled.
C16_FailedOnError ==
    [][/\ \A i \in DOMAIN fired' :
              fired'[i].type = "remote_connection_failed" =>
                  /\ i > 1 /\ i < Len(fired')
                  /\ fired'[i - 1].type = "remote_disconnected"
                  /\ fired'[i + 1].type \in {"setTimeout_reconnect", "remote_connection_dead"}
                  /\ fired'[i].attempt = _reconnect_attempt
       /\ \A j \in DOMAIN readyState :
              (readyState[j] # "CLOSED" /\ readyState'[j] = "CLOSED") =>
                  \A error, wasClean \in BOOLEAN :
                      WsClose(j, error, wasClean) =>
                          Count(fired', "remote_connection_failed") =
                              IF EntersByError(j, error) THEN 1 ELSE 0
       /\ Count(fired', "remote_connection_failed") >= 1 =>
              \E j \in DOMAIN readyState : readyState[j] # "CLOSED" /\ readyState'[j] = "CLOSED"
      ]_vars

\* the error event of the second transport, with the counter at 1
C16_Witness ==
    /\ Len(fired) = 3
    /\ fired[1].type = "remote_disconnected"
    /\ fired[2] = Note("remote_connection_failed", 1, 0)
    /\ fired[3] = Note("setTimeout_reconnect", 1, 2)

\* C17: a step of the processing of an inbound frame leaves the connection as it was,
\* sends nothing and fires nothing but exec.Remote: once when a decoded message with an
\* exec field is dispatched, and not otherwise.
C17_FramesLeaveConnection ==
    [][frames' # frames =>
          /\ UNCHANGED connVars
          /\ sent' = <<>>
          /\ \A i \in DOMAIN fired' : fired'[i].type \in {"exec", "console.error"}
          /\ Count(fired', "exec") =
                 IF \E k \in DOMAIN frames :
                        /\ frames[k].stage = "decoded" /\ frames[k].data = "exec"
                        /\ frames'[k].stage # "decoded"
                 THEN 1 ELSE 0
      ]_vars

\* a dispatch has failed, and one has fired exec.Remote, with the transport still OPEN
C17_Witness ==
    /\ ws # 0 /\ readyState[ws] = "OPEN"
    /\ \E k, m \in DOMAIN frames :
           /\ k < m
           /\ frames[k].data = "null" /\ frames[k].stage = "failed"
           /\ frames[m].data = "exec" /\ frames[m].stage = "done"
    /\ fired = <<Note("exec", 0, 0)>>

\* C18: stop_channel leaves the pending timers as they are, and a reconnect timer that
\* was due to fire before the call can fire after it.
C18_StopKeepsTimers ==
    /\ [][StopChannel => timers' = timers]_vars
    /\ [](ret.op = "stop_channel" =>
             \A p \in DOMAIN timers :
                 (timers[p].kind = "reconnect" /\ CanFire(p) /\ Len(readyState) < MaxWs) =>
                     ENABLED ReconnectTimer(p, MaxWs))

\* stop_channel has closed the OPEN transport while a reconnect timer is pending
C18_Witness ==
    /\ ret.op = "stop_channel"
    /\ ws # 0 /\ readyState[ws] = "CLOSING"
    /\ \E p \in DOMAIN timers : timers[p].kind = "reconnect" /\ CanFire(p)
    /\ Len(readyState) < MaxWs

\* C19: the open event of a transport fires remote_connected, and resets the counter,
\* exactly when the transport in ws is OPEN at that moment; remote_connected never
\* fires with ws null or not OPEN.
C19_ConnectedOnlyWhenOpen ==
    [][/\ \A j \in DOMAIN readyState :
              WsOpen(j) =>
                  /\ Count(fired', "remote_connected") =
                         IF ws # 0 /\ readyState'[ws] = "OPEN" THEN 1 ELSE 0
                  /\ Count(fired', "remote_connected") = 0 =>
                         _reconnect_attempt' = _reconnect_attempt
                  /\ ws' = ws
       /\ Count(fired', "remote_connected") >= 1 => is_connected(St)'
      ]_vars

\* transport 2 opened after transport 3 had replaced it: no remote_connected, the
\* counter still 1
C19_Witness ==
    /\ readyState = <<"CLOSED", "OPEN", "CONNECTING">>
    /\ ws = 3 /\ _reconnect_attempt = 1
    /\ fired = <<>>

\* C20: the close and error events of a transport that is no longer the one in ws, and
\* the grace timer of an earlier start_channel call, leave ws, the readyState of the
\* current transport and its close handler as they were.
C20_StaleCallbacksIsolated ==
    [][/\ \A j \in DOMAIN readyState : \A error, wasClean \in BOOLEAN :
              (WsClose(j, error, wasClean) /\ ws # 0 /\ j # ws) =>
                  /\ ws' = ws
                  /\ readyState'[ws] = readyState[ws]
                  /\ onclose'[ws] = onclose[ws]
       /\ \A p \in DOMAIN timers :
              (GraceTimer(p) /\ ws # 0 /\ timers[p].call # ws) =>
                  /\ ws' = ws
                  /\ readyState'[ws] = readyState[ws]
                  /\ onclose'[ws] = onclose[ws]
      ]_vars

====
